---- MODULE Spec2Model ----
(***************************************************************************)
(* Model of src/app.py: a Streamlit script that renders one PDF page,      *)
(* transcribes it with a vision model and analyses the transcription with  *)
(* a text model behind st.cache_data.                                      *)
(*                                                                         *)
(* A Streamlit script is re-executed top to bottom on every interaction.   *)
(* Each action below is one interaction followed by the complete script    *)
(* run it triggers.  State that survives between runs: the widget values   *)
(* (uploaded_file, page_num), st.session_state, the st.cache_data memo.    *)
(* The variable run records what the last script run did and displayed.    *)
(***************************************************************************)
EXTENDS Integers, Sequences, FiniteSets, TLC

VARIABLES API_KEY, uploaded_file, page_num, session_state, cache, calls,
          edit, run

vars == <<API_KEY, uploaded_file, page_num, session_state, cache, calls,
          edit, run>>

----------------------------------------------------------------------------
(* Bounds *)

MaxPages == 1          \* largest page count of an uploaded document
MaxPageNum == 1        \* largest page number entered in the sidebar
MaxCalls == 2          \* the external-call counters saturate here
RenderMaxPages == 6    \* page counts tried when render is called directly
RenderMaxIdx == 9      \* |page_number| tried when render is called directly

(* Program constants *)

CharBudget == 800      \* text[:800]

----------------------------------------------------------------------------
(* A text is a Python str, held run-length encoded: a sequence of runs    *)
(* <<c, n>>, the character c repeated n > 0 times, adjacent runs differing *)
(* in c.  Two texts are equal exactly when their encodings are.            *)

Rep(c, n) == IF n = 0 THEN <<>> ELSE <<<<c, n>>>>

(* s + t *)
Cat(s, t) ==
    IF s = <<>> THEN t
    ELSE IF t = <<>> THEN s
    ELSE IF s[Len(s)][1] = t[1][1]
         THEN SubSeq(s, 1, Len(s) - 1)
                  \o <<<<t[1][1], s[Len(s)][2] + t[1][2]>>>> \o Tail(t)
         ELSE s \o t

(* the str of a sequence of characters *)
RECURSIVE Str(_)
Str(chars) ==
    IF chars = <<>> THEN <<>> ELSE Cat(Rep(Head(chars), 1), Str(Tail(chars)))

(* len(s) *)
RECURSIVE TLen(_)
TLen(s) == IF s = <<>> THEN 0 ELSE s[1][2] + TLen(Tail(s))

(* s[i - 1], for i in 1..len(s) *)
RECURSIVE CharAt(_, _)
CharAt(s, i) == IF i <= s[1][2] THEN s[1][1] ELSE CharAt(Tail(s), i - s[1][2])

(* s[:n] *)
RECURSIVE Take(_, _)
Take(s, n) ==
    IF s = <<>> \/ n <= 0 THEN <<>>
    ELSE IF s[1][2] >= n THEN <<<<s[1][1], n>>>>
    ELSE <<s[1]>> \o Take(Tail(s), n - s[1][2])

NoText == <<<<"None", 1>>>>                \* Python None where a str may stand

ErrorWord == <<"E", "r", "r", "o", "r">>   \* the characters of "Error"

(* word in text, for a non-empty word given by its characters.  On the     *)
(* encodings: the runs of the word lie on consecutive runs of the text,    *)
(* the inner ones equal, the first and the last no longer than the text's. *)
Contains(text, word) ==
    LET w == Str(word)
        k == Len(w)
    IN  \E i \in 1..(Len(text) - k + 1) :
            /\ text[i][1] = w[1][1]
            /\ text[i + k - 1][1] = w[k][1]
            /\ IF k = 1
               THEN text[i][2] >= w[1][2]
               ELSE /\ text[i][2] >= w[1][2]
                    /\ text[i + k - 1][2] >= w[k][2]
                    /\ \A j \in 2..(k - 1) : text[i + j - 1] = w[j]

Min(a, b) == IF a < b THEN a ELSE b

(* What the vision model can transcribe: a short text, a legitimate text   *)
(* that contains the word "Error", a text of exactly 800 characters and    *)
(* two longer texts that agree with it on their first 800 characters.      *)
T_Hund == Str(<<"H", "u", "n", "d">>)
T_ErrorWord == Str(<<"D", "e", "r", " ">> \o ErrorWord)
T_LongX == Cat(Rep("a", CharBudget), Rep("x", 1))
T_LongY == Cat(Rep("a", CharBudget), Rep("y", 1))
T_Exact == Rep("a", CharBudget)

VisionTexts == {T_Hund, T_ErrorWord, T_LongX, T_LongY, T_Exact}

(* What the caller can type into the text area. *)
T_Edit == Str(<<"H", "u", "n", "d", "e">>)
EditTexts == {T_Edit}

(* str(e) of an exception raised by the client *)
ExcText == Str(<<"t", "i", "m", "e", "o", "u", "t">>)

----------------------------------------------------------------------------
(* Python values that the render step hands around: None, a str, a PIL     *)
(* image.  page is the page an image (or its base64 text) was made from.   *)

PyNone == [type |-> "NoneType", page |-> 0, msg |-> ""]
PyStr(m, k) == [type |-> "str", page |-> k, msg |-> m]
PyImage(k) == [type |-> "Image", page |-> k, msg |-> ""]

OutOfRangeMsg == "page number out of range"

(* bool(v) as the test 'if pil_img:' evaluates it *)
Truthy(v) ==
    CASE v.type = "NoneType" -> FALSE
      [] v.type = "str" -> v.msg /= ""
      [] OTHER -> TRUE

(* fitz.Document.load_page: a negative page number counts from the end *)
load_page(len_doc, page_number) == page_number % len_doc

(* pdf_page_to_base64(uploaded_file, page_number) for a document of        *)
(* len_doc pages: the pair it returns, in the order it returns it.         *)
pdf_page_to_base64(len_doc, page_number) ==
    IF page_number >= len_doc
    THEN <<PyNone, PyStr(OutOfRangeMsg, 0)>>
    ELSE LET page == load_page(len_doc, page_number)
         IN  <<PyStr("png", page), PyImage(page)>>

(* st.image(pil_img, ...): a PIL image is displayed; a str is taken as a   *)
(* file path or URL, and a path that names no file raises.                 *)
st_image(pil_img) == IF pil_img.type = "Image" THEN "shown" ELSE "raise"

----------------------------------------------------------------------------
(* The vision call.  vis is what the upstream does with the one request:   *)
(* [raised |-> TRUE] or a completion whose content is vis.content.         *)

VisionOutcomes ==
    {[raised |-> TRUE, content |-> ExcText]}
    \cup {[raised |-> FALSE, content |-> t] : t \in VisionTexts}

(* Faulty variant: the except branch returns str(e) without the "Error: "  *)
(* prefix the caller looks for.                                            *)
extract_text_with_vision_bare(base64_image, vis) == vis.content

extract_text_with_vision(base64_image, vis) ==
    IF vis.raised
    THEN Cat(Str(ErrorWord \o <<":", " ">>), vis.content)
    ELSE vis.content

----------------------------------------------------------------------------
(* The text model's response.  A body is a sequence of tokens: the fence   *)
(* of three backquotes (written "<fence>" here), the word "json", a        *)
(* newline, or a chunk of JSON text.                                       *)

Fence == "<fence>"
Whitespace == {"\n", " "}

B_FencedOk == <<Fence, "json", "\n", "[rec5]", "\n", Fence>>
B_NotJson == <<"not json">>
B_Int == <<"42">>
B_Missing == <<"[rec2]">>

Bodies == {B_FencedOk, B_NotJson, B_Int, B_Missing}

TextOutcomes ==
    {[raised |-> TRUE, content |-> <<>>]}
    \cup {[raised |-> FALSE, content |-> b] : b \in Bodies}

(* Python values an analysis can return: a list of dicts (items holds the  *)
(* key set of each), a dict (keys), an int.                                *)
Fields == {"word", "pos", "meaning", "usage", "example"}

PyList(ks) == [type |-> "list", keys |-> {}, items |-> ks]
PyDict(k) == [type |-> "dict", keys |-> k, items |-> <<>>]
PyInt == [type |-> "int", keys |-> {}, items |-> <<>>]
NoValue == [type |-> "NoneType", keys |-> {}, items |-> <<>>]
Raised == [type |-> "raise", keys |-> {}, items |-> <<>>]

(* str.replace(old, "") on a token sequence *)
RECURSIVE replace(_, _)
replace(s, old) ==
    IF Len(s) < Len(old) THEN s
    ELSE IF SubSeq(s, 1, Len(old)) = old
         THEN replace(SubSeq(s, Len(old) + 1, Len(s)), old)
         ELSE <<Head(s)>> \o replace(Tail(s), old)

(* str.strip() *)
RECURSIVE strip(_)
strip(s) ==
    IF s = <<>> THEN s
    ELSE IF Head(s) \in Whitespace THEN strip(Tail(s))
    ELSE IF s[Len(s)] \in Whitespace THEN strip(SubSeq(s, 1, Len(s) - 1))
    ELSE s

(* json.loads: the documents the upstream can send, anything else raises *)
json_loads(s) ==
    IF Len(s) /= 1 THEN Raised
    ELSE CASE s[1] = "[rec5]" -> PyList(<<Fields>>)
           [] s[1] = "[rec2]" -> PyList(<<{"word", "pos"}>>)
           [] s[1] = "42" -> PyInt
           [] OTHER -> Raised

(* Faulty variant: the prompt embeds text instead of text[:800]. *)
analyze_grammar_untruncated(text, resp) ==
    LET clean_content ==
            strip(replace(replace(resp.content, <<Fence, "json">>), <<Fence>>))
        parsed == json_loads(clean_content)
    IN  [request |-> text,
         value |-> IF resp.raised \/ parsed = Raised
                   THEN PyDict({"error"})
                   ELSE parsed]

(* the body of analyze_grammar: the text embedded in the request, and the  *)
(* value returned                                                          *)
analyze_grammar(text, resp) ==
    LET safe_text == Take(text, CharBudget)
        clean_content ==
            strip(replace(replace(resp.content, <<Fence, "json">>), <<Fence>>))
        parsed == json_loads(clean_content)
    IN  [request |-> safe_text,
         value |-> IF resp.raised \/ parsed = Raised
                   THEN PyDict({"error"})
                   ELSE parsed]

(* @st.cache_data: the memo is keyed by the argument; a returned value is  *)
(* stored, whatever it is                                                  *)
HasKey(memo, text) == \E e \in memo : e[1] = text
Lookup(memo, text) == (CHOOSE e \in memo : e[1] = text)[2]

(* Faulty variant: a failure is not stored, as when the function raises    *)
(* instead of returning the error dict.                                    *)
cache_data_drop_failures(memo, text, resp) ==
    IF HasKey(memo, text)
    THEN [memo |-> memo, value |-> Lookup(memo, text),
          external |-> FALSE, request |-> NoText]
    ELSE LET r == analyze_grammar(text, resp)
         IN  [memo |-> IF r.value = PyDict({"error"}) THEN memo
                       ELSE memo \cup {<<text, r.value>>},
              value |-> r.value, external |-> TRUE, request |-> r.request]

(* Faulty variant: the memo is keyed by text[:800] instead of the argument *)
cache_data_by_truncation(memo, text, resp) ==
    LET k == Take(text, CharBudget)
    IN  IF HasKey(memo, k)
        THEN [memo |-> memo, value |-> Lookup(memo, k),
              external |-> FALSE, request |-> NoText]
        ELSE LET r == analyze_grammar(text, resp)
             IN  [memo |-> memo \cup {<<k, r.value>>}, value |-> r.value,
                  external |-> TRUE, request |-> r.request]

cache_data(memo, text, resp) ==
    IF HasKey(memo, text)
    THEN [memo |-> memo, value |-> Lookup(memo, text),
          external |-> FALSE, request |-> NoText]
    ELSE LET r == analyze_grammar(text, resp)
         IN  [memo |-> memo \cup {<<text, r.value>>}, value |-> r.value,
              external |-> TRUE, request |-> r.request]

(* The test '"error" in analysis_result' and what follows it:              *)
(* the status the run ends in and what is displayed                        *)
show_analysis(v) ==
    CASE v.type = "dict" /\ "error" \in v.keys ->
             [status |-> "AnalysisFailed", shown |-> {"analysis_error"}]
      [] v.type = "list" ->
             [status |-> "Done", shown |-> {"table"}]
      [] OTHER ->
             [status |-> "Fault", shown |-> {"exception"}]

----------------------------------------------------------------------------
(* One run of the script, top to bottom.                                   *)
(*   key        API_KEY                                                    *)
(*   file       uploaded_file: NoFile, or the page count of the document   *)
(*   page       page_num, from st.number_input(min_value=0)                *)
(*   clicked    what st.button returns in this run                         *)
(*   ss         st.session_state at the start of the run                   *)
(*   memo       the st.cache_data memo at the start of the run             *)
(*   vis, resp  what the two upstream services do if they are called       *)
(* The result is what the run did and displayed (obs) and the memo and     *)
(* session state it leaves behind.                                         *)

NoFile == 0

(* what a call of pdf_page_to_base64 was given and what it returned *)
NoRender ==
    [len_doc |-> 0, page_number |-> 0, base64_img |-> PyNone,
     pil_img |-> PyNone]

Blank ==
    [status |-> "Idle", shown |-> {}, render |-> NoRender, trigger |-> FALSE,
     visionCalls |-> 0, visionRaised |-> FALSE, extracted |-> NoText,
     analyzeArg |-> NoText, external |-> FALSE, request |-> NoText,
     result |-> NoValue]

(* st.session_state holds, for a widget key, the value argument the widget *)
(* was created with and its current value: <<key, created, current>>.      *)
(* st.text_area(value=..., key="ocr_text"): a widget created with the same *)
(* value argument in the run before keeps its current value; otherwise the *)
(* widget is new and the key takes the value argument.  A run that does    *)
(* not call st.text_area drops the key, as Streamlit drops the state of a  *)
(* widget that is not rendered.                                            *)
st_text_area(ss, value) ==
    IF \E kv \in ss : kv[1] = "ocr_text" /\ kv[2] = value
    THEN ss
    ELSE {<<"ocr_text", value, value>>}

(* Faulty variant: the check of lines 25-27 is absent. *)
key_missing_never(key) == FALSE

(* not API_KEY *)
key_missing(key) == key = ""

Script(key, file, page, clicked, ss, memo, vis, resp) ==
    IF key_missing(key)
    THEN [obs |-> [Blank EXCEPT !.status = "Stopped", !.shown = {"key_error"}],
          memo |-> memo, ss |-> {}]
    ELSE IF file = NoFile
    THEN [obs |-> [Blank EXCEPT !.shown = {"upload_info"}],
          memo |-> memo, ss |-> {}]
    ELSE
    LET r == pdf_page_to_base64(file, page)
        base64_img == r[1]
        pil_img == r[2]
        afterRender ==
            [Blank EXCEPT !.render = [len_doc |-> file, page_number |-> page,
                                      base64_img |-> base64_img,
                                      pil_img |-> pil_img]]
    IN
    IF ~Truthy(pil_img)
    THEN [obs |-> [afterRender EXCEPT !.status = "RenderFailed",
                                      !.shown = {"out_of_range_error"}],
          memo |-> memo, ss |-> {}]
    ELSE IF st_image(pil_img) = "raise"
    THEN [obs |-> [afterRender EXCEPT !.status = "Fault",
                                      !.shown = {"exception"}],
          memo |-> memo, ss |-> {}]
    ELSE IF ~clicked
    THEN [obs |-> [afterRender EXCEPT !.status = "AwaitingTrigger",
                                      !.shown = {"preview", "button"}],
          memo |-> memo, ss |-> {}]
    ELSE
    LET extracted_text == extract_text_with_vision(base64_img, vis)
        afterVision ==
            [afterRender EXCEPT !.trigger = TRUE, !.visionCalls = 1,
                                !.visionRaised = vis.raised,
                                !.extracted = extracted_text]
    IN
    IF Contains(extracted_text, ErrorWord)
    THEN [obs |-> [afterVision EXCEPT
                       !.status = "TranscribeFailed",
                       !.shown = {"preview", "button", "ocr_error"}],
          memo |-> memo, ss |-> {}]
    ELSE
    LET ss1 == st_text_area(ss, extracted_text)
        text_to_analyze ==
            IF \E kv \in ss1 : kv[1] = "ocr_text"
            THEN (CHOOSE kv \in ss1 : kv[1] = "ocr_text")[3]
            ELSE extracted_text
        c == cache_data(memo, text_to_analyze, resp)
        d == show_analysis(c.value)
    IN  [obs |-> [afterVision EXCEPT
                      !.status = d.status,
                      !.shown = {"preview", "button", "text_area"}
                                    \cup d.shown,
                      !.analyzeArg = text_to_analyze,
                      !.external = c.external,
                      !.request = c.request,
                      !.result = c.value],
         memo |-> c.memo, ss |-> ss1]

----------------------------------------------------------------------------
(* calls[t] counts the requests sent to the text model for argument t.     *)

Count(cs, obs) ==
    IF obs.external
    THEN [cs EXCEPT ![obs.analyzeArg] = Min(@ + 1, MaxCalls)]
    ELSE cs

Rerun(file, page, clicked, ss, vis, resp) ==
    LET out == Script(API_KEY, file, page, clicked, ss, cache, vis, resp)
    IN  /\ run' = out.obs
        /\ cache' = out.memo
        /\ session_state' = out.ss
        /\ calls' = Count(calls, out.obs)

NoVision == [raised |-> TRUE, content |-> ExcText]
NoResponse == [raised |-> TRUE, content |-> <<>>]

(* The session starts with one run of the script: no file, page 0.  The    *)
(* key is whatever st.secrets holds, "" when it holds none.                *)
Init ==
    /\ API_KEY \in {"", "sk-key"}
    /\ uploaded_file = NoFile
    /\ page_num = 0
    /\ session_state = {}
    /\ cache = {}
    /\ calls = [t \in VisionTexts |-> 0]
    /\ edit = NoText
    /\ run = Script(API_KEY, NoFile, 0, FALSE, {}, {}, NoVision, NoResponse).obs

(* The caller uploads a document of n pages, or removes it (n = NoFile). *)
UploadFile(n) ==
    /\ n /= uploaded_file
    /\ uploaded_file' = n
    /\ edit' = NoText
    /\ Rerun(n, page_num, FALSE, {}, NoVision, NoResponse)
    /\ UNCHANGED <<API_KEY, page_num>>

(* The caller enters another page number. *)
SelectPage(p) ==
    /\ p /= page_num
    /\ page_num' = p
    /\ edit' = NoText
    /\ Rerun(uploaded_file, p, FALSE, {}, NoVision, NoResponse)
    /\ UNCHANGED <<API_KEY, uploaded_file>>

(* The caller presses the button: a run in which st.button returns True.   *)
ClickButton(vis, resp) ==
    /\ "button" \in run.shown
    /\ Rerun(uploaded_file, page_num, TRUE, session_state, vis, resp)
    /\ UNCHANGED <<API_KEY, uploaded_file, page_num, edit>>

(* The caller edits the text area: the widget state takes the new text and *)
(* the script runs again, with st.button returning False.                  *)
EditText(e) ==
    /\ "text_area" \in run.shown
    /\ edit' = e
    /\ Rerun(uploaded_file, page_num, FALSE,
             {<<kv[1], kv[2], e>> : kv \in session_state},
             NoVision, NoResponse)
    /\ UNCHANGED <<API_KEY, uploaded_file, page_num>>

Next ==
    \/ \E n \in 0..MaxPages : UploadFile(n)
    \/ \E p \in 0..MaxPageNum : SelectPage(p)
    \/ \E vis \in VisionOutcomes, resp \in TextOutcomes : ClickButton(vis, resp)
    \/ \E e \in EditTexts : EditText(e)

Spec == Init /\ [][Next]_vars

----------------------------------------------------------------------------
(* pdf_page_to_base64 called on its own: any document of 1..RenderMaxPages *)
(* pages, any page_number an int argument can hold within the bound.       *)

InitRender ==
    /\ API_KEY = "sk-key"
    /\ uploaded_file = NoFile
    /\ page_num = 0
    /\ session_state = {}
    /\ cache = {}
    /\ calls = [t \in VisionTexts |-> 0]
    /\ edit = NoText
    /\ run = Blank

CallRender(len_doc, page_number) ==
    LET r == pdf_page_to_base64(len_doc, page_number)
    IN  /\ run' = [Blank EXCEPT !.render =
                       [len_doc |-> len_doc, page_number |-> page_number,
                        base64_img |-> r[1], pil_img |-> r[2]]]
        /\ UNCHANGED <<API_KEY, uploaded_file, page_num, session_state,
                       cache, calls, edit>>

NextRender ==
    \E len_doc \in 1..RenderMaxPages,
       page_number \in (-RenderMaxIdx)..RenderMaxIdx :
        CallRender(len_doc, page_number)

SpecRender == InitRender /\ [][NextRender]_vars

----------------------------------------------------------------------------
(* Properties *)

Failed(v) == v.type = "dict" /\ "error" \in v.keys
Records(v) == v.type = "list" /\ \A i \in 1..Len(v.items) : v.items[i] = Fields

(* C1: analyze(t) sends at most one request per text t; once a result for  *)
(* t is stored, a failure included, every later analyze(t) returns the     *)
(* stored result and sends nothing.                                        *)
C1_AtMostOneCall ==
    /\ [](\A t \in VisionTexts : calls[t] <= 1)
    /\ [][\A t \in VisionTexts :
            (run'.analyzeArg = t /\ HasKey(cache, t)) =>
                /\ ~run'.external
                /\ run'.result = Lookup(cache, t)
                /\ cache' = cache
                /\ calls' = calls]_vars

(* a stored failure was replayed *)
C1_Witness ==
    /\ run.analyzeArg /= NoText
    /\ ~run.external
    /\ Failed(run.result)
    /\ calls[run.analyzeArg] = 1

(* C2 as stated: two texts with the same first 800 characters cost one     *)
(* request between them.                                                   *)
C2_Original ==
    \A t1, t2 \in VisionTexts :
        (t1 /= t2 /\ Take(t1, CharBudget) = Take(t2, CharBudget)) =>
            calls[t1] + calls[t2] <= 1

(* C2 amended: the memo is keyed by the exact argument.  analyze(t) sends  *)
(* a request exactly when t itself is not a key, whatever is stored for    *)
(* other texts with the same first 800 characters, and t is a key after.   *)
C2_KeyedByExactText ==
    /\ [](\A t \in VisionTexts : HasKey(cache, t) <=> calls[t] = 1)
    /\ [][\A t \in VisionTexts :
            run'.analyzeArg = t =>
                /\ run'.external <=> ~HasKey(cache, t)
                /\ HasKey(cache', t)]_vars

(* both texts that share their first 800 characters were sent *)
C2_Witness ==
    /\ Take(T_LongX, CharBudget) = Take(T_LongY, CharBudget)
    /\ calls[T_LongX] = 1
    /\ calls[T_LongY] = 1

(* C3: whatever the text model answers, analyze returns Failed or a list   *)
(* of records with the five fields, and the run does not end in an         *)
(* unhandled exception.                                                    *)
C3_Original ==
    run.analyzeArg /= NoText =>
        /\ Failed(run.result) \/ Records(run.result)
        /\ run.status /= "Fault"

(* pdf_page_to_base64 reported the page number as out of range *)
OutOfRange(c) == c.len_doc > 0 /\ c.base64_img = PyNone

(* C4: an out-of-range page ends the run with the out-of-range error       *)
(* shown, no preview, no button, no vision call and no analysis.           *)
C4_Original ==
    OutOfRange(run.render) =>
        /\ run.status = "RenderFailed"
        /\ "out_of_range_error" \in run.shown
        /\ "preview" \notin run.shown
        /\ "button" \notin run.shown
        /\ run.visionCalls = 0
        /\ run.analyzeArg = NoText

(* C5: render fails with the out-of-range error and no image for every     *)
(* page_number outside 0..len_doc-1, and yields the image of the page and  *)
(* no error for every page_number inside.                                  *)
C5_Original ==
    LET c == run.render
    IN  c.len_doc > 0 =>
            IF c.page_number \in 0..(c.len_doc - 1)
            THEN /\ c.pil_img = PyImage(c.page_number)
                 /\ c.base64_img = PyStr("png", c.page_number)
            ELSE /\ c.base64_img = PyNone
                 /\ c.pil_img = PyStr(OutOfRangeMsg, 0)

(* C6: the text passed to analyze is the caller's latest edit when there   *)
(* is one, and the transcription of the run otherwise.                     *)
C6_Original ==
    run.analyzeArg /= NoText =>
        run.analyzeArg = (IF edit /= NoText THEN edit ELSE run.extracted)

(* C7: a transcription is reported as failed exactly when the vision call  *)
(* raised.                                                                 *)
C7_Original ==
    run.visionCalls > 0 =>
        (run.status = "TranscribeFailed" <=> run.visionRaised)

(* C8: the vision call is made only in a run with a rendered image and a   *)
(* pressed button, once; a vision call that raises ends the run with the   *)
(* diagnostic shown and without analysis; analysis happens only in a run   *)
(* whose vision call returned.                                             *)
C8_VisionThenAnalysis ==
    /\ run.visionCalls \in {0, 1}
    /\ run.visionCalls = 1 =>
           /\ run.trigger
           /\ run.render.pil_img.type = "Image"
           /\ run.render.page_number \in 0..(run.render.len_doc - 1)
    /\ run.trigger => run.visionCalls = 1
    /\ run.visionRaised =>
           /\ run.visionCalls = 1
           /\ run.status = "TranscribeFailed"
           /\ "ocr_error" \in run.shown
           /\ run.extracted = Cat(Str(ErrorWord \o <<":", " ">>), ExcText)
           /\ run.analyzeArg = NoText
           /\ ~run.external
    /\ run.analyzeArg /= NoText =>
           /\ run.visionCalls = 1
           /\ ~run.visionRaised

(* a vision call raised *)
C8_Witness ==
    /\ run.trigger
    /\ run.visionRaised
    /\ run.status = "TranscribeFailed"

(* C9: the request embeds exactly the first 800 characters of a longer     *)
(* text, never the whole of it, and a text of at most 800 characters as    *)
(* it is.                                                                  *)
C9_Truncation ==
    run.external =>
        IF TLen(run.analyzeArg) > CharBudget
        THEN /\ TLen(run.request) = CharBudget
             /\ \A i \in 1..CharBudget :
                    CharAt(run.request, i) = CharAt(run.analyzeArg, i)
             /\ run.request /= run.analyzeArg
        ELSE run.request = run.analyzeArg

(* a text longer than the budget was sent *)
C9_Witness ==
    /\ run.external
    /\ TLen(run.analyzeArg) > CharBudget

(* C10: with no API key every run stops at the key error: nothing is       *)
(* rendered and neither upstream service is ever called.                   *)
C10_NoKeyNoRun ==
    API_KEY = "" =>
        /\ run.status = "Stopped"
        /\ run.shown = {"key_error"}
        /\ run.render = NoRender
        /\ run.visionCalls = 0
        /\ run.analyzeArg = NoText
        /\ ~run.external
        /\ cache = {}
        /\ \A t \in VisionTexts : calls[t] = 0

(* a document was uploaded while the key is missing *)
C10_Witness ==
    /\ API_KEY = ""
    /\ uploaded_file /= NoFile
    /\ run.status = "Stopped"

====
